---- MODULE Spec2Model ----
(***************************************************************************)
(* The array-like wrapper of pyvista.core._validation._array_wrapper:      *)
(* _ArrayLikeWrapper.__new__ (the dispatch constructor), its four variants *)
(* _NumberWrapper, _SequenceWrapper, _NestedSequenceWrapper and            *)
(* _NumpyArrayWrapper, and _get_dtype_from_iterable.                       *)
(*                                                                         *)
(* Python objects live in a heap keyed by identity; a value held by a      *)
(* variable or a container slot is an Item: a number with its Python type, *)
(* or a reference to a heap object.  float values are counted in halves    *)
(* (v = 3 is 1.5), so that int(float) truncates.                           *)
(***************************************************************************)
EXTENDS Integers, Sequences, FiniteSets, TLC

\* longest flat sequence, inner row and 1-D array of the inputs
MaxLen == 2
\* most rows of a nested input
MaxOuter == 2
\* longest element stream handed to dtype inference on its own
MaxInferLen == 3

VARIABLES heap, raw, w, made, ret, actor, source
vars == <<heap, raw, w, made, ret, actor, source>>

\* the array wrapper's part of the state, and the axes objects' part
wrapper == <<heap, raw, w, made>>
axes == <<actor, source>>

---------------------------------------------------------------------------
\* Values

Item(t, v) == [t |-> t, v |-> v]
Ref(i) == Item("ref", i)
NoneItem == Item("none", 0)
StrItem == Item("str", 0)
WrapperItem(i) == Item("wrapper", i)

NumTypes == {"bool", "int", "float"}
SeqCls == {"list", "tuple"}

Obj(c, it, d, s) == [cls |-> c, items |-> it, dtype |-> d, shape |-> s]
SeqObj(c, it) == Obj(c, it, "", <<>>)

NoObjs == [i \in {} |-> SeqObj("list", <<>>)]

RECURSIVE Product(_)
Product(s) == IF Len(s) = 0 THEN 1 ELSE Head(s) * Product(Tail(s))

RECURSIVE Concat(_)
Concat(ss) == IF Len(ss) = 0 THEN <<>> ELSE Head(ss) \o Concat(Tail(ss))

\* dtype(x) for the builtin types bool, int, float
Coerce(T, x) ==
    CASE T = "bool" -> Item("bool", IF x.v # 0 THEN 1 ELSE 0)
      [] T = "int" -> Item("int", IF x.t = "float" THEN x.v \div 2 ELSE x.v)
      [] T = "float" -> Item("float", IF x.t = "float" THEN x.v ELSE 2 * x.v)

\* the numeric value of a number, in halves
Val2(x) == IF x.t = "float" THEN x.v ELSE 2 * x.v

---------------------------------------------------------------------------
\* The heap

Children(h, i) ==
    {h[i].items[k].v : k \in {j \in 1..Len(h[i].items) : h[i].items[j].t = "ref"}}

RECURSIVE Closure(_, _)
Closure(h, S) ==
    LET N == S \cup UNION {Children(h, i) : i \in S}
    IN IF N = S THEN S ELSE Closure(h, N)

Roots(x) == IF x.t = "ref" THEN {x.v} ELSE {}
Reach(h, x) == Closure(h, Roots(x))

Restrict(h, S) == [i \in S |-> h[i]]

\* the objects of Reach(h, x) that can be mutated in place
MutableReach(h, x) == {i \in Reach(h, x) : h[i].cls \in {"list", "ndarray"}}

\* the structure an item denotes, identities dropped
RECURSIVE Value(_, _)
Value(h, x) ==
    IF x.t # "ref" THEN <<x.t, x.v>>
    ELSE LET o == h[x.v]
         IN <<o.cls, o.dtype, o.shape,
              [k \in 1..Len(o.items) |-> Value(h, o.items[k])]>>

NextFree(used) ==
    CHOOSE i \in 1..(Cardinality(used) + 1) :
        i \notin used /\ \A j \in 1..(i - 1) : j \in used

\* one new object
Fresh1(h, o) ==
    LET f == NextFree(DOMAIN h)
    IN [out |-> Ref(f), objs |-> (f :> o)]

Same(x) == [out |-> x, objs |-> NoObjs]

\* the row-major leaves below an item
RECURSIVE Flat(_, _)
Flat(h, x) ==
    IF x.t # "ref" THEN <<x>>
    ELSE IF h[x.v].cls = "ndarray" THEN h[x.v].items
    ELSE Concat([k \in 1..Len(h[x.v].items) |-> Flat(h, h[x.v].items[k])])

\* the array shape of nested sequences; <<-1>> when they are ragged
RECURSIVE ShapeOf(_, _)
ShapeOf(h, x) ==
    IF x.t # "ref" THEN <<>>
    ELSE IF h[x.v].cls = "ndarray" THEN h[x.v].shape
    ELSE LET it == h[x.v].items
             ss == {ShapeOf(h, it[k]) : k \in 1..Len(it)}
         IN IF Len(it) = 0 THEN <<0>>
            ELSE IF Cardinality(ss) # 1 \/ <<-1>> \in ss THEN <<-1>>
            ELSE <<Len(it)>> \o (CHOOSE s \in ss : TRUE)

\* nested sequences of class c over row-major data: the object built for
\* `shape` from data[lo..], its new objects taken from the ids outside `used`
RECURSIVE Build(_, _, _, _, _)
RECURSIVE BuildKids(_, _, _, _, _, _)
BuildKids(c, data, rest, lo, used, n) ==
    IF n = 0 THEN [items |-> <<>>, objs |-> NoObjs]
    ELSE LET k == Build(c, data, rest, lo, used)
             more == BuildKids(c, data, rest, lo + Product(rest),
                               used \cup DOMAIN k.objs, n - 1)
         IN [items |-> <<k.out>> \o more.items, objs |-> k.objs @@ more.objs]
Build(c, data, shape, lo, used) ==
    IF Len(shape) = 0 THEN Same(data[lo])
    ELSE LET kids == BuildKids(c, data, Tail(shape), lo, used, Head(shape))
             f == NextFree(used \cup DOMAIN kids.objs)
         IN [out |-> Ref(f), objs |-> kids.objs @@ (f :> SeqObj(c, kids.items))]

---------------------------------------------------------------------------
\* Dtype inference

RECURSIVE ScanDtypes(_, _, _)
ScanDtypes(it, i, dtypes) ==
    IF i > Len(it) THEN [float |-> FALSE, dtypes |-> dtypes]
    ELSE IF it[i].t = "float" THEN [float |-> TRUE, dtypes |-> dtypes]
    ELSE ScanDtypes(it, i + 1, dtypes \cup {it[i].t})

\* inference without the {bool, int} case
get_dtype_no_mixed(it) ==
    LET s == ScanDtypes(it, 1, {})
    IN IF s.float THEN "float"
       ELSE IF Cardinality(s.dtypes) = 0 THEN "float"
       ELSE IF s.dtypes \in {{"int"}} THEN "int"
       ELSE IF s.dtypes = {"bool"} THEN "bool"
       ELSE "TypeError"

\* inference that takes bool for a mix of bool and int
get_dtype_bool_wins(it) ==
    LET s == ScanDtypes(it, 1, {})
    IN IF s.float THEN "float"
       ELSE IF Cardinality(s.dtypes) = 0 THEN "float"
       ELSE IF s.dtypes \in {{"int"}} THEN "int"
       ELSE IF s.dtypes \in {{"bool"}, {"bool", "int"}} THEN "bool"
       ELSE "TypeError"

get_dtype_from_iterable(it) ==
    LET s == ScanDtypes(it, 1, {})
    IN IF s.float THEN "float"
       ELSE IF Cardinality(s.dtypes) = 0 THEN "float"
       ELSE IF s.dtypes \in {{"int"}, {"bool", "int"}} THEN "int"
       ELSE IF s.dtypes = {"bool"} THEN "bool"
       ELSE "TypeError"

---------------------------------------------------------------------------
\* The type guards and the cast to a dense array

\* the builtin type a type is or derives from: numpy.float64 derives from
\* float
Base(t) == IF t = "float64" THEN "float" ELSE t

\* isinstance(x, (float, int, bool))
IsNumber(x) == Base(x.t) \in NumTypes

IsSequence(h, x) == x.t = "ref" /\ h[x.v].cls \in SeqCls

IsNumberSequence(h, x) ==
    /\ IsSequence(h, x)
    /\ \A k \in 1..Len(h[x.v].items) : IsNumber(h[x.v].items[k])

IsNestedNumberSequence(h, x) ==
    /\ IsSequence(h, x)
    /\ \A k \in 1..Len(h[x.v].items) : IsNumberSequence(h, h[x.v].items[k])
    /\ \A j, k \in 1..Len(h[x.v].items) :
           Len(h[h[x.v].items[j].v].items) = Len(h[h[x.v].items[k].v].items)

\* numpy's element type for a collection of Python numbers
NpResultType(lv) ==
    IF \E k \in 1..Len(lv) : lv[k].t = "float" THEN "float"
    ELSE IF \E k \in 1..Len(lv) : lv[k].t = "int" THEN "int"
    ELSE IF Len(lv) = 0 THEN "float"
    ELSE "bool"

\* np.array(x): a new array of the numbers below x
NpArray(h, x) ==
    LET lv == Flat(h, x)
        d == NpResultType(lv)
    IN Fresh1(h, Obj("ndarray", [k \in 1..Len(lv) |-> Coerce(d, lv[k])], d,
                     ShapeOf(h, x)))

Raise(e) == [err |-> e, out |-> NoneItem, objs |-> NoObjs]
Return(r) == [err |-> "", out |-> r.out, objs |-> r.objs]

\* _cast_to_numpy(x): an array is passed through, nested sequences of numbers
\* become a new array, anything else raises
cast_to_numpy(h, x) ==
    IF x.t = "ref" /\ h[x.v].cls = "ndarray" THEN Return(Same(x))
    ELSE IF x.t \in {"none", "str"} THEN Raise("TypeError")
    ELSE IF ShapeOf(h, x) = <<-1>> THEN Raise("ValueError")
    ELSE IF \E k \in 1..Len(Flat(h, x)) : ~IsNumber(Flat(h, x)[k])
         THEN Raise("TypeError")
    ELSE Return(NpArray(h, x))

---------------------------------------------------------------------------
\* The dispatch constructor

NoWrapper == [id |-> 0, variant |-> "", array |-> NoneItem, dtype |-> ""]

NewWrapper(n, variant, arr, dt) ==
    [id |-> n + 1, variant |-> variant, array |-> arr, dtype |-> dt]

\* most items reprlib.repr shows of one list or tuple
maxlist == 6

\* reprlib.repr(x): at most maxlist items of a sequence, then an ellipsis
RECURSIVE reprlib_repr(_, _)
reprlib_repr(h, x) ==
    IF x.t # "ref" THEN <<x.t, x.v>>
    ELSE LET o == h[x.v]
             n == IF Len(o.items) > maxlist THEN maxlist ELSE Len(o.items)
         IN <<o.cls, [k \in 1..n |-> reprlib_repr(h, o.items[k])],
              Len(o.items) > maxlist>>

Built(wr, h, n) == [err |-> "", msg |-> <<>>, w |-> wr, heap |-> h, made |-> n]
Failed(e, m, wcur, h, n) == [err |-> e, msg |-> m, w |-> wcur, heap |-> h, made |-> n]

\* a try block that wraps a wrapper again
WrapTry_rewrap(h, x, wcur, n) ==
    IF x.t = "wrapper"
    THEN Built(NewWrapper(n, wcur.variant, wcur.array,
                          IF wcur.dtype = "" THEN "" ELSE "None"), h, n + 1)
    ELSE IF IsNumberSequence(h, x)
         THEN Built(NewWrapper(n, "Sequence", x, "None"), h, n + 1)
    ELSE IF IsNestedNumberSequence(h, x)
         THEN Built(NewWrapper(n, "NestedSequence", x, "None"), h, n + 1)
    ELSE IF IsNumber(x)
         THEN Built(NewWrapper(n, "Number", x, ""), h, n + 1)
    ELSE LET c == cast_to_numpy(h, x)
         IN IF c.err # "" THEN Failed(c.err, <<"cast">>, wcur, h, n)
            ELSE Built(NewWrapper(n, "NumpyArray", c.out, ""), h @@ c.objs, n + 1)

\* a try block that tests for a nested sequence before a flat one
WrapTry_nested_first(h, x, wcur, n) ==
    IF x.t = "wrapper" THEN Built(wcur, h, n)
    ELSE IF IsNestedNumberSequence(h, x)
         THEN Built(NewWrapper(n, "NestedSequence", x, "None"), h, n + 1)
    ELSE IF IsNumberSequence(h, x)
         THEN Built(NewWrapper(n, "Sequence", x, "None"), h, n + 1)
    ELSE IF IsNumber(x)
         THEN Built(NewWrapper(n, "Number", x, ""), h, n + 1)
    ELSE LET c == cast_to_numpy(h, x)
         IN IF c.err # "" THEN Failed(c.err, <<"cast">>, wcur, h, n)
            ELSE Built(NewWrapper(n, "NumpyArray", c.out, ""), h @@ c.objs, n + 1)

\* a try block that wraps a copy of a flat sequence
WrapTry_copy(h, x, wcur, n) ==
    IF x.t = "wrapper" THEN Built(wcur, h, n)
    ELSE IF IsNumberSequence(h, x)
         THEN LET c == Fresh1(h, h[x.v])
              IN Built(NewWrapper(n, "Sequence", c.out, "None"), h @@ c.objs, n + 1)
    ELSE IF IsNestedNumberSequence(h, x)
         THEN Built(NewWrapper(n, "NestedSequence", x, "None"), h, n + 1)
    ELSE IF IsNumber(x)
         THEN Built(NewWrapper(n, "Number", x, ""), h, n + 1)
    ELSE LET c == cast_to_numpy(h, x)
         IN IF c.err # "" THEN Failed(c.err, <<"cast">>, wcur, h, n)
            ELSE Built(NewWrapper(n, "NumpyArray", c.out, ""), h @@ c.objs, n + 1)

\* the try block of __new__
WrapTry(h, x, wcur, n) ==
    IF x.t = "wrapper" THEN Built(wcur, h, n)
    ELSE IF IsNumberSequence(h, x)
         THEN Built(NewWrapper(n, "Sequence", x, "None"), h, n + 1)
    ELSE IF IsNestedNumberSequence(h, x)
         THEN Built(NewWrapper(n, "NestedSequence", x, "None"), h, n + 1)
    ELSE IF IsNumber(x)
         THEN Built(NewWrapper(n, "Number", x, ""), h, n + 1)
    ELSE LET c == cast_to_numpy(h, x)
         IN IF c.err # "" THEN Failed(c.err, <<"cast">>, wcur, h, n)
            ELSE Built(NewWrapper(n, "NumpyArray", c.out, ""), h @@ c.objs, n + 1)

\* an except clause that catches ValueError only
ArrayLikeWrapper_value_only(h, x, wcur, n) ==
    LET r == WrapTry(h, x, wcur, n)
    IN IF r.err \in {"ValueError"}
       THEN Failed("ValueError",
                   <<"The following array is not valid", reprlib_repr(h, x)>>,
                   wcur, h, n)
       ELSE r

\* an except clause that catches TypeError only
ArrayLikeWrapper_type_only(h, x, wcur, n) ==
    LET r == WrapTry(h, x, wcur, n)
    IN IF r.err \in {"TypeError"}
       THEN Failed("ValueError",
                   <<"The following array is not valid", reprlib_repr(h, x)>>,
                   wcur, h, n)
       ELSE r

\* __new__: the try block under its except clause
ArrayLikeWrapper(h, x, wcur, n) ==
    LET r == WrapTry(h, x, wcur, n)
    IN IF r.err \in {"ValueError", "TypeError"}
       THEN Failed("ValueError",
                   <<"The following array is not valid", reprlib_repr(h, x)>>,
                   wcur, h, n)
       ELSE r

---------------------------------------------------------------------------
\* The variants: _NumberWrapper, _SequenceWrapper, _NestedSequenceWrapper
\* (the builtin wrappers) and _NumpyArrayWrapper

Items(h, wr) == h[wr.array.v].items
Row(h, wr, k) == h[Items(h, wr)[k].v].items

\* shape of a nested wrapper with the two lengths swapped
shape_swapped(h, wr) ==
    CASE wr.variant = "Number" -> <<>>
      [] wr.variant = "Sequence" -> <<Len(h[wr.array.v].items)>>
      [] wr.variant = "NestedSequence" ->
            <<Len(h[h[wr.array.v].items[1].v].items), Len(h[wr.array.v].items)>>
      [] wr.variant = "NumpyArray" -> h[wr.array.v].shape

shape(h, wr) ==
    CASE wr.variant = "Number" -> <<>>
      [] wr.variant = "Sequence" -> <<Len(Items(h, wr))>>
      [] wr.variant = "NestedSequence" -> <<Len(Items(h, wr)), Len(Row(h, wr, 1))>>
      [] wr.variant = "NumpyArray" -> h[wr.array.v].shape

ndim(h, wr) ==
    CASE wr.variant = "Number" -> 0
      [] wr.variant = "Sequence" -> 1
      [] wr.variant = "NestedSequence" -> 2
      [] wr.variant = "NumpyArray" -> Len(h[wr.array.v].shape)

\* size of a nested wrapper without the row length
size_rows_only(h, wr) ==
    CASE wr.variant = "Number" -> 1
      [] wr.variant = "Sequence" -> Len(h[wr.array.v].items)
      [] wr.variant = "NestedSequence" -> Len(h[wr.array.v].items)
      [] wr.variant = "NumpyArray" -> Product(h[wr.array.v].shape)

size(h, wr) ==
    CASE wr.variant = "Number" -> 1
      [] wr.variant = "Sequence" -> Len(Items(h, wr))
      [] wr.variant = "NestedSequence" -> Len(Items(h, wr)) * Len(Row(h, wr, 1))
      [] wr.variant = "NumpyArray" -> Product(h[wr.array.v].shape)

\* as_iterable that hands out one shared iterator: a later call goes on
\* where the earlier result stopped
as_iterable_resumed(h, wr) ==
    LET full == CASE wr.variant = "Number" -> <<wr.array>>
                  [] wr.variant = "Sequence" -> h[wr.array.v].items
                  [] wr.variant = "NestedSequence" ->
                        Concat([k \in 1..Len(h[wr.array.v].items) |->
                                   h[h[wr.array.v].items[k].v].items])
                  [] wr.variant = "NumpyArray" -> h[wr.array.v].items
    IN IF ret.op = "as_iterable" THEN SubSeq(full, ret.n + 1, Len(full)) ELSE full

\* the elements as_iterable yields, in the order it yields them
as_iterable(h, wr) ==
    CASE wr.variant = "Number" -> <<wr.array>>
      [] wr.variant = "Sequence" -> Items(h, wr)
      [] wr.variant = "NestedSequence" ->
            Concat([k \in 1..Len(Items(h, wr)) |-> Row(h, wr, k)])
      [] wr.variant = "NumpyArray" -> h[wr.array.v].items

\* a dtype property that infers on every read and stores nothing
dtype_uncached(h, wr) ==
    CASE wr.variant = "Number" ->
            [dt |-> wr.array.t, err |-> "", w |-> wr, scanned |-> FALSE]
      [] wr.variant \in {"Sequence", "NestedSequence"} ->
            LET d == get_dtype_from_iterable(as_iterable(h, wr))
            IN IF d = "TypeError" THEN [dt |-> "", err |-> d, w |-> wr, scanned |-> TRUE]
               ELSE [dt |-> d, err |-> "", w |-> wr, scanned |-> TRUE]
      [] wr.variant = "NumpyArray" ->
            [dt |-> h[wr.array.v].dtype, err |-> "", w |-> wr, scanned |-> FALSE]

\* the dtype property: [dt, err, w, scanned] with the wrapper as the read
\* leaves it, and whether the read went over the elements
dtype(h, wr) ==
    CASE wr.variant = "Number" ->
            [dt |-> wr.array.t, err |-> "", w |-> wr, scanned |-> FALSE]
      [] wr.variant \in {"Sequence", "NestedSequence"} ->
            IF wr.dtype = "None"
            THEN LET d == get_dtype_from_iterable(as_iterable(h, wr))
                 IN IF d = "TypeError"
                    THEN [dt |-> "", err |-> d, w |-> wr, scanned |-> TRUE]
                    ELSE [dt |-> d, err |-> "", w |-> [wr EXCEPT !.dtype = d],
                          scanned |-> TRUE]
            ELSE [dt |-> wr.dtype, err |-> "", w |-> wr, scanned |-> FALSE]
      [] wr.variant = "NumpyArray" ->
            [dt |-> h[wr.array.v].dtype, err |-> "", w |-> wr, scanned |-> FALSE]

\* func(x, a) for the predicates the checks pass to all_func
Func(p, x, a) ==
    CASE p = "gt" -> Val2(x) > a

Preds == {"gt"}
\* the extra argument, in halves: x > 0 and x > 1
PredArgs == {0, 2}

\* all_func with any in the place of all
BuiltinWrapper_all_func_any(h, wr, p, a) ==
    \E k \in 1..Len(as_iterable(h, wr)) : Func(p, as_iterable(h, wr)[k], a)

\* all(func(x, *args) for x in self.as_iterable())
BuiltinWrapper_all_func(h, wr, p, a) ==
    \A k \in 1..Len(as_iterable(h, wr)) : Func(p, as_iterable(h, wr)[k], a)

\* np.all(func(self._array, *args)): func applies to the array elementwise
NumpyArrayWrapper_all_func(h, wr, p, a) ==
    \A k \in 1..Len(h[wr.array.v].items) : Func(p, h[wr.array.v].items[k], a)

all_func(h, wr, p, a) ==
    IF wr.variant = "NumpyArray" THEN NumpyArrayWrapper_all_func(h, wr, p, a)
    ELSE BuiltinWrapper_all_func(h, wr, p, a)

\* copy.deepcopy of a flat sequence of numbers: a new list; a tuple whose
\* items are all atomic is returned itself
deepcopy(h, x) ==
    IF h[x.v].cls = "list" THEN Fresh1(h, SeqObj("list", h[x.v].items))
    ELSE Same(x)

\* c(sub) for each row: a new object, but tuple(sub) of a tuple is sub itself
RECURSIVE AsRows(_, _, _, _)
AsRows(h, rows, used, c) ==
    IF Len(rows) = 0 THEN [items |-> <<>>, objs |-> NoObjs]
    ELSE LET r == Head(rows)
             keep == c = "tuple" /\ h[r.v].cls = "tuple"
             f == NextFree(used)
             more == AsRows(h, Tail(rows), IF keep THEN used ELSE used \cup {f}, c)
         IN [items |-> <<IF keep THEN r ELSE Ref(f)>> \o more.items,
             objs |-> IF keep THEN more.objs
                      ELSE (f :> SeqObj(c, h[r.v].items)) @@ more.objs]

\* c(c(sub) for sub in array)
AsNested(h, x, c) ==
    LET rows == AsRows(h, h[x.v].items, DOMAIN h, c)
        f == NextFree(DOMAIN h \cup DOMAIN rows.objs)
    IN [out |-> Ref(f), objs |-> rows.objs @@ (f :> SeqObj(c, rows.items))]

NumberWrapper_to_list(h, wr, inp, copy) == Same(wr.array)

\* to_list that never copies
SequenceWrapper_to_list_nocopy(h, wr, inp, copy) ==
    IF h[wr.array.v].cls = "list" THEN Same(wr.array)
    ELSE Fresh1(h, SeqObj("list", h[wr.array.v].items))

SequenceWrapper_to_list(h, wr, inp, copy) ==
    LET out == IF h[wr.array.v].cls = "list" THEN Same(wr.array)
               ELSE Fresh1(h, SeqObj("list", Items(h, wr)))
    IN IF copy /\ out.out = inp THEN deepcopy(h, out.out) ELSE out

NestedSequenceWrapper_to_list(h, wr, inp, copy) ==
    IF h[wr.array.v].cls = "list" THEN Same(wr.array)
    ELSE AsNested(h, wr.array, "list")

\* to_list that lists the flattened array
NumpyArrayWrapper_to_list_flat(h, wr, inp, copy) ==
    Fresh1(h, SeqObj("list", h[wr.array.v].items))

NumpyArrayWrapper_to_list(h, wr, inp, copy) ==
    Build("list", h[wr.array.v].items, h[wr.array.v].shape, 1, DOMAIN h)

to_list(h, wr, inp, copy) ==
    CASE wr.variant = "Number" -> NumberWrapper_to_list(h, wr, inp, copy)
      [] wr.variant = "Sequence" -> SequenceWrapper_to_list(h, wr, inp, copy)
      [] wr.variant = "NestedSequence" -> NestedSequenceWrapper_to_list(h, wr, inp, copy)
      [] wr.variant = "NumpyArray" -> NumpyArrayWrapper_to_list(h, wr, inp, copy)

NumberWrapper_to_tuple(h, wr, inp, copy) == Same(wr.array)

SequenceWrapper_to_tuple(h, wr, inp, copy) ==
    LET out == IF h[wr.array.v].cls = "tuple" THEN Same(wr.array)
               ELSE Fresh1(h, SeqObj("tuple", Items(h, wr)))
    IN IF copy /\ out.out = inp THEN deepcopy(h, out.out) ELSE out

NestedSequenceWrapper_to_tuple(h, wr, inp, copy) ==
    IF h[wr.array.v].cls = "tuple" THEN Same(wr.array)
    ELSE AsNested(h, wr.array, "tuple")

\* _cast_to_tuple(array): nested tuples of the array's elements
cast_to_tuple(h, x) ==
    Build("tuple", h[x.v].items, h[x.v].shape, 1, DOMAIN h)

NumpyArrayWrapper_to_tuple(h, wr, inp, copy) == cast_to_tuple(h, wr.array)

to_tuple(h, wr, inp, copy) ==
    CASE wr.variant = "Number" -> NumberWrapper_to_tuple(h, wr, inp, copy)
      [] wr.variant = "Sequence" -> SequenceWrapper_to_tuple(h, wr, inp, copy)
      [] wr.variant = "NestedSequence" -> NestedSequenceWrapper_to_tuple(h, wr, inp, copy)
      [] wr.variant = "NumpyArray" -> NumpyArrayWrapper_to_tuple(h, wr, inp, copy)

BuiltinWrapper_to_numpy(h, wr, inp, copy) == NpArray(h, wr.array)

NumpyArrayWrapper_to_numpy(h, wr, inp, copy) ==
    IF copy /\ wr.array = inp THEN Fresh1(h, h[wr.array.v]) ELSE Same(wr.array)

to_numpy(h, wr, inp, copy) ==
    IF wr.variant = "NumpyArray" THEN NumpyArrayWrapper_to_numpy(h, wr, inp, copy)
    ELSE BuiltinWrapper_to_numpy(h, wr, inp, copy)

\* change_dtype: [w, objs], the wrapper as the call leaves it and the objects
\* the call made
NumberWrapper_change_dtype(h, wr, T) ==
    IF wr.array.t = T THEN [w |-> wr, objs |-> NoObjs]
    ELSE [w |-> [wr EXCEPT !.array = Coerce(T, wr.array)], objs |-> NoObjs]

CoerceAll(T, it) == [k \in 1..Len(it) |-> Coerce(T, it[k])]

\* change_dtype that leaves the cached dtype as it was
SequenceWrapper_change_dtype_stale(h, wr, T) ==
    LET new == Fresh1(h, SeqObj(h[wr.array.v].cls,
                                [k \in 1..Len(h[wr.array.v].items) |->
                                    Coerce(T, h[wr.array.v].items[k])]))
    IN [w |-> [wr EXCEPT !.array = new.out], objs |-> new.objs]

\* change_dtype that writes the coerced elements into the storage it has
SequenceWrapper_change_dtype_inplace(h, wr, T) ==
    [w |-> [wr EXCEPT !.dtype = T],
     objs |-> (wr.array.v :> SeqObj(h[wr.array.v].cls, CoerceAll(T, Items(h, wr))))]

SequenceWrapper_change_dtype(h, wr, T) ==
    LET new == Fresh1(h, SeqObj(h[wr.array.v].cls, CoerceAll(T, Items(h, wr))))
    IN [w |-> [wr EXCEPT !.array = new.out, !.dtype = T], objs |-> new.objs]

\* rows rebuilt as lists, whatever they were
RECURSIVE CoerceRows_as_list(_, _, _, _)
CoerceRows_as_list(h, rows, used, T) ==
    IF Len(rows) = 0 THEN [items |-> <<>>, objs |-> NoObjs]
    ELSE LET r == Head(rows)
             f == NextFree(used)
             more == CoerceRows_as_list(h, Tail(rows), used \cup {f}, T)
         IN [items |-> <<Ref(f)>> \o more.items,
             objs |-> (f :> SeqObj("list", CoerceAll(T, h[r.v].items)))
                      @@ more.objs]

\* sub_array.__class__(dtype(item) for item in sub_array), row by row
RECURSIVE CoerceRows(_, _, _, _)
CoerceRows(h, rows, used, T) ==
    IF Len(rows) = 0 THEN [items |-> <<>>, objs |-> NoObjs]
    ELSE LET r == Head(rows)
             f == NextFree(used)
             more == CoerceRows(h, Tail(rows), used \cup {f}, T)
         IN [items |-> <<Ref(f)>> \o more.items,
             objs |-> (f :> SeqObj(h[r.v].cls, CoerceAll(T, h[r.v].items)))
                      @@ more.objs]

NestedSequenceWrapper_change_dtype(h, wr, T) ==
    LET rows == CoerceRows(h, Items(h, wr), DOMAIN h, T)
        f == NextFree(DOMAIN h \cup DOMAIN rows.objs)
    IN [w |-> [wr EXCEPT !.array = Ref(f), !.dtype = T],
        objs |-> rows.objs @@ (f :> SeqObj(h[wr.array.v].cls, rows.items))]

\* a cast that overwrites the array it is given
astype_inplace(h, x, T) ==
    [out |-> x,
     objs |-> (x.v :> Obj("ndarray", CoerceAll(T, h[x.v].items), T, h[x.v].shape))]

\* ndarray.astype(T, copy=False): the array itself when it has dtype T
astype(h, x, T) ==
    IF h[x.v].dtype = T THEN Same(x)
    ELSE Fresh1(h, Obj("ndarray", CoerceAll(T, h[x.v].items), T, h[x.v].shape))

NumpyArrayWrapper_change_dtype(h, wr, T) ==
    LET new == astype(h, wr.array, T)
    IN [w |-> [wr EXCEPT !.array = new.out], objs |-> new.objs]

change_dtype(h, wr, T) ==
    CASE wr.variant = "Number" -> NumberWrapper_change_dtype(h, wr, T)
      [] wr.variant = "Sequence" -> SequenceWrapper_change_dtype(h, wr, T)
      [] wr.variant = "NestedSequence" -> NestedSequenceWrapper_change_dtype(h, wr, T)
      [] wr.variant = "NumpyArray" -> NumpyArrayWrapper_change_dtype(h, wr, T)

---------------------------------------------------------------------------
\* The inputs

B1 == Item("bool", 1)
I2 == Item("int", 2)
F3 == Item("float", 3)

FlatLeaves == {B1, I2, F3}
NestLeaves == {B1, F3}
ArrVals(d) ==
    CASE d = "bool" -> {Item("bool", 0), B1}
      [] d = "int" -> {Item("int", 0), I2}
      [] d = "float" -> {Item("float", 0), F3}

\* more items than reprlib.repr shows
LongLen == 7

SeqsUpTo(S, n) == UNION {[1..k -> S] : k \in 0..n}

Input(h, x) == [heap |-> h, raw |-> x]

Nest(co, ci, rows) ==
    LET n == Len(rows)
    IN Input([i \in 1..(n + 1) |->
                 IF i <= n THEN SeqObj(ci, rows[i])
                 ELSE SeqObj(co, [k \in 1..n |-> Ref(k)])],
             Ref(n + 1))

ScalarInputs == {Input(NoObjs, x) : x \in FlatLeaves \cup {NoneItem}}

FlatInputs ==
    {Input(1 :> SeqObj(c, s), Ref(1)) : c \in SeqCls, s \in SeqsUpTo(FlatLeaves, MaxLen)}

\* the rows of length m a nested input is made of: the first row is any row
\* over the leaves, a later row repeats one leaf
FirstRows(m) == [1..m -> NestLeaves]
LaterRows(m) == {[k \in 1..m |-> x] : x \in NestLeaves}

NestedInputs ==
    UNION {UNION {{Nest(co, ci, <<first>> \o rest) :
                      co \in SeqCls, ci \in SeqCls,
                      first \in FirstRows(m), rest \in [1..(n - 1) -> LaterRows(m)]} :
                  m \in 0..MaxLen} :
           n \in 1..MaxOuter}

RaggedInputs ==
    {Nest("list", "list", rows) :
        rows \in {r \in [1..2 -> SeqsUpTo({I2}, MaxLen)] : Len(r[1]) # Len(r[2])}}
    \cup {Input(<<SeqObj("list", <<I2>>), SeqObj("list", <<I2, Ref(1)>>)>>, Ref(2))}

StrInputs ==
    {Input(1 :> SeqObj("list", [k \in 1..n |-> StrItem]), Ref(1)) :
        n \in (1..MaxLen) \cup {LongLen}}

DeepInputs ==
    {Input(<<SeqObj("list", <<x>>), SeqObj("list", <<Ref(1)>>),
             SeqObj("list", <<Ref(2)>>)>>, Ref(3)) : x \in NestLeaves}

ArrayInputs ==
    UNION {{Input(1 :> Obj("ndarray", s, d, <<Len(s)>>), Ref(1)) :
               s \in SeqsUpTo(ArrVals(d), MaxLen)}
           \cup {Input(1 :> Obj("ndarray", <<x>>, d, <<>>), Ref(1)) : x \in ArrVals(d)} :
           d \in NumTypes}

RawInputs ==
    ScalarInputs \cup FlatInputs \cup NestedInputs \cup RaggedInputs
    \cup StrInputs \cup DeepInputs \cup ArrayInputs

---------------------------------------------------------------------------
\* The state: the heap, the caller's input `raw`, the wrapper `w` the caller
\* holds, the number of wrappers constructed, and the last call with what it
\* returned (objects made for the result are in ret.objs).

\* no AxesActor and no AxesGeometrySource constructed
NoActor == [shaft_type |-> "", auto_shaft_type |-> FALSE]
NoSource == [normalized_mode |-> FALSE]

Ret0 ==
    [op |-> "", arg |-> NoneItem, copy |-> FALSE, T |-> "",
     err |-> "", msg |-> <<>>, out |-> NoneItem, objs |-> NoObjs,
     shape |-> <<>>, n |-> 0, b |-> FALSE, dt |-> "", elems |-> <<>>]

Init ==
    \E i \in RawInputs :
        /\ heap = i.heap
        /\ raw = i.raw
        /\ w = NoWrapper
        /\ made = 0
        /\ ret = Ret0
        /\ actor = NoActor
        /\ source = NoSource

\* w = _ArrayLikeWrapper(x), for the input or for the wrapper already held
Wrap(x) ==
    LET r == ArrayLikeWrapper(heap, x, w, made)
    IN /\ heap' = r.heap
       /\ w' = r.w
       /\ made' = r.made
       /\ ret' = [Ret0 EXCEPT !.op = "wrap", !.arg = x, !.err = r.err, !.msg = r.msg,
                              !.out = IF r.err = "" THEN WrapperItem(r.w.id) ELSE NoneItem]
       /\ UNCHANGED <<raw, axes>>

WrapArgs == IF w.id = 0 THEN {raw} ELSE {WrapperItem(w.id)}

\* what the caller passes as input_array: its input, or another object
InputArrays == {raw, NoneItem}

\* the objects the caller or the wrapper still holds
Live(h, wr) == Reach(h, raw) \cup Reach(h, wr.array)

ReadShape ==
    /\ w.id # 0
    /\ ret' = [Ret0 EXCEPT !.op = "shape", !.shape = shape(heap, w)]
    /\ UNCHANGED <<heap, raw, w, made, axes>>

ReadNdim ==
    /\ w.id # 0
    /\ ret' = [Ret0 EXCEPT !.op = "ndim", !.n = ndim(heap, w)]
    /\ UNCHANGED <<heap, raw, w, made, axes>>

ReadSize ==
    /\ w.id # 0
    /\ ret' = [Ret0 EXCEPT !.op = "size", !.n = size(heap, w)]
    /\ UNCHANGED <<heap, raw, w, made, axes>>

ReadDtype ==
    /\ w.id # 0
    /\ LET r == dtype(heap, w)
       IN /\ w' = r.w
          /\ ret' = [Ret0 EXCEPT !.op = "dtype", !.dt = r.dt, !.err = r.err,
                                 !.b = r.scanned]
    /\ UNCHANGED <<heap, raw, made, axes>>

AsIterable ==
    /\ w.id # 0
    /\ ret' = [Ret0 EXCEPT !.op = "as_iterable", !.elems = as_iterable(heap, w),
                           !.out = IF w.variant = "Sequence" THEN w.array ELSE NoneItem]
    /\ UNCHANGED <<heap, raw, w, made, axes>>

\* next() on the iterable the last as_iterable returned; ret.n counts the
\* elements taken from it
NextElement ==
    /\ ret.op = "as_iterable"
    /\ ret.n < Len(ret.elems)
    /\ ret' = [ret EXCEPT !.n = ret.n + 1]
    /\ UNCHANGED <<heap, raw, w, made, axes>>

AllFunc(p, a) ==
    /\ w.id # 0
    /\ ret' = [Ret0 EXCEPT !.op = "all_func", !.T = p, !.n = a,
                           !.b = all_func(heap, w, p, a)]
    /\ UNCHANGED <<heap, raw, w, made, axes>>

Returned(op, inp, copy, r) ==
    [Ret0 EXCEPT !.op = op, !.arg = inp, !.copy = copy, !.out = r.out, !.objs = r.objs]

ToList(inp, copy) ==
    /\ w.id # 0
    /\ ret' = Returned("to_list", inp, copy, to_list(heap, w, inp, copy))
    /\ UNCHANGED <<heap, raw, w, made, axes>>

ToTuple(inp, copy) ==
    /\ w.id # 0
    /\ ret' = Returned("to_tuple", inp, copy, to_tuple(heap, w, inp, copy))
    /\ UNCHANGED <<heap, raw, w, made, axes>>

ToNumpy(inp, copy) ==
    /\ w.id # 0
    /\ ret' = Returned("to_numpy", inp, copy, to_numpy(heap, w, inp, copy))
    /\ UNCHANGED <<heap, raw, w, made, axes>>

\* the storage a wrapper no longer refers to is released unless the caller's
\* input holds it
ChangeDtype(T) ==
    /\ w.id # 0
    /\ LET r == change_dtype(heap, w, T)
       IN /\ w' = r.w
          /\ heap' = Restrict(r.objs @@ heap, Live(r.objs @@ heap, r.w))
    /\ ret' = [Ret0 EXCEPT !.op = "change_dtype", !.T = T]
    /\ UNCHANGED <<raw, made, axes>>

\* w2 = _ArrayLikeWrapper(out) for the list a to_list(copy=False) returned,
\* then w2.shape, w2.dtype and w2.size; w2 is dropped after the reads
Rewrap ==
    /\ ret.op = "to_list"
    /\ ~ret.copy
    /\ LET r == ArrayLikeWrapper(heap @@ ret.objs, ret.out, NoWrapper, made)
       IN ret' = IF r.err # "" THEN [Ret0 EXCEPT !.op = "rewrap", !.err = r.err]
                 ELSE [Ret0 EXCEPT !.op = "rewrap", !.T = r.w.variant,
                                   !.shape = shape(r.heap, r.w),
                                   !.dt = dtype(r.heap, r.w).dt,
                                   !.n = size(r.heap, r.w)]
    /\ UNCHANGED <<heap, raw, w, made, axes>>

Next ==
    \/ \E x \in WrapArgs : Wrap(x)
    \/ ReadShape
    \/ ReadNdim
    \/ ReadSize
    \/ ReadDtype
    \/ AsIterable
    \/ NextElement
    \/ \E p \in Preds, a \in PredArgs : AllFunc(p, a)
    \/ \E inp \in InputArrays, copy \in BOOLEAN : ToList(inp, copy)
    \/ Rewrap
    \/ \E inp \in InputArrays, copy \in BOOLEAN : ToTuple(inp, copy)
    \/ \E inp \in InputArrays, copy \in BOOLEAN : ToNumpy(inp, copy)
    \/ \E T \in NumTypes : ChangeDtype(T)

Spec == Init /\ [][Next]_vars

---------------------------------------------------------------------------
\* Dtype inference on its own: an element stream, then its inferred dtype

InferLeaves == {Item("bool", 0), B1, I2, F3}

InitInfer ==
    /\ heap = NoObjs
    /\ raw = NoneItem
    /\ w = NoWrapper
    /\ made = 0
    /\ \E s \in SeqsUpTo(InferLeaves, MaxInferLen) :
           ret = [Ret0 EXCEPT !.op = "elements", !.elems = s]
    /\ actor = NoActor
    /\ source = NoSource

Infer ==
    /\ ret.op = "elements"
    /\ ret' = [ret EXCEPT !.op = "infer", !.dt = get_dtype_from_iterable(ret.elems)]
    /\ UNCHANGED <<heap, raw, w, made, axes>>

InsertAt(s, p, e) == SubSeq(s, 1, p) \o <<e>> \o SubSeq(s, p + 1, Len(s))

\* the dtype of the stream with one more element e after its first p
\* elements; ret.T keeps the dtype inferred before
AddElement(e, p) ==
    /\ ret.op = "infer"
    /\ Len(ret.elems) < MaxInferLen
    /\ p <= Len(ret.elems)
    /\ LET s == InsertAt(ret.elems, p, e)
       IN ret' = [ret EXCEPT !.elems = s, !.T = ret.dt,
                             !.dt = get_dtype_from_iterable(s)]
    /\ UNCHANGED <<heap, raw, w, made, axes>>

NextInfer ==
    \/ Infer
    \/ \E e \in InferLeaves, p \in 0..MaxInferLen : AddElement(e, p)

SpecInfer == InitInfer /\ [][NextInfer]_vars

---------------------------------------------------------------------------
\* Construction and the dtype read alone, over flat and nested sequences
\* whose elements are numbers of the builtin types or of a type derived
\* from one

GateLeaves == {B1, I2, F3, Item("float64", 3)}

InitGate ==
    /\ w = NoWrapper
    /\ made = 0
    /\ ret = Ret0
    /\ actor = NoActor
    /\ source = NoSource
    /\ \E i \in {Input(1 :> SeqObj(c, s), Ref(1)) :
                     c \in SeqCls, s \in SeqsUpTo(GateLeaves, MaxLen)}
                 \cup {Nest(c, c, <<s>>) : c \in SeqCls, s \in SeqsUpTo(GateLeaves, MaxLen)} :
           heap = i.heap /\ raw = i.raw

NextGate ==
    \/ \E x \in WrapArgs : Wrap(x)
    \/ ReadDtype

SpecGate == InitGate /\ [][NextGate]_vars

---------------------------------------------------------------------------
\* AxesActor (pyvista.plotting.axes_actor): the shaft type and the shaft
\* parameters.  An optional argument is <<>> when it is None and <<v>> when
\* it is given; radii are counted in hundredths.

None == <<>>
Some(v) == <<v>>
set_default(val, default) == IF val = None THEN default ELSE val[1]

ShaftTypes == {"cylinder", "line"}

\* the defaults of __init__
DefaultShaftRadius == 1
DefaultShaftWidth == 2
DefaultShaftResolution == 16

\* the least resolution vtkAxesActor keeps (SetCylinderResolution clamps)
MinResolution == 3

\* _check_range(value, (lower, inf), name)
check_range(value, lower) == IF value < lower THEN "ValueError" ELSE ""

\* vtkSetClampMacro with no upper limit in reach
Clamp(value, lower) == IF value < lower THEN lower ELSE value

Done(a) == [actor |-> a, err |-> ""]
Rejected(a) == [actor |-> a, err |-> "ValueError"]

\* shaft_type = ...: _AxesProp.shaft_type.setter, then AxesActor._shaft_type
AxesActor_shaft_type(a, shaft_type, theme) ==
    LET t == set_default(shaft_type, theme)
    IN IF t \in ShaftTypes THEN Done([a EXCEPT !.shaft_type = t]) ELSE Rejected(a)

AxesActor_auto_shaft_type(a, value) == Done([a EXCEPT !.auto_shaft_type = value])

\* a radius setter that switches the type only when it updates the props
AxesActor_shaft_radius_on_update(a, radius) ==
    LET do_update == a.shaft_type = "cylinder" /\ radius # a.cylinder_radius
    IN IF check_range(radius, 0) # "" THEN Rejected(a)
       ELSE Done([a EXCEPT !.cylinder_radius = Clamp(radius, 0),
                           !.shaft_type = IF a.auto_shaft_type /\ do_update
                                          THEN "cylinder" ELSE @])

\* shaft_radius = ...: _AxesProp.shaft_radius.setter checks the range, then
\* AxesActor._shaft_radius sets the radius and, with auto_shaft_type, the type
AxesActor_shaft_radius(a, radius) ==
    IF check_range(radius, 0) # "" THEN Rejected(a)
    ELSE Done([a EXCEPT !.cylinder_radius = Clamp(radius, 0),
                        !.shaft_type = IF a.auto_shaft_type THEN "cylinder" ELSE @])

\* shaft_width = ...: the type and the width are set, then the range is checked
AxesActor_shaft_width(a, width) ==
    LET b == [a EXCEPT !.shaft_type = IF a.auto_shaft_type THEN "line" ELSE @,
                       !.line_width = Clamp(width, 0)]
    IN IF check_range(width, 0) # "" THEN Rejected(b) ELSE Done(b)

\* shaft_resolution = ...: the type and the resolution are set, then the
\* range is checked
AxesActor_shaft_resolution(a, resolution) ==
    LET b == [a EXCEPT !.shaft_type = IF a.auto_shaft_type THEN "cylinder" ELSE @,
                       !.cylinder_resolution = Clamp(resolution, MinResolution)]
    IN IF check_range(resolution, 1) # "" THEN Rejected(b) ELSE Done(b)

\* tip_resolution = ...: the resolution is set, then the range is checked
AxesActor_tip_resolution(a, resolution) ==
    LET b == [a EXCEPT !.cone_resolution = Clamp(resolution, MinResolution)]
    IN IF check_range(resolution, 1) # "" THEN Rejected(b) ELSE Done(b)

\* tip_radius = ...: the radius is set, then the range is checked
AxesActor_tip_radius(a, radius) ==
    LET b == [a EXCEPT !.cone_radius = Clamp(radius, 0)]
    IN IF check_range(radius, 0) # "" THEN Rejected(b) ELSE Done(b)

\* labels = ...: x_label, y_label and z_label are set from the first three
\* items, one after the other, then the number of items is checked.  A str
\* is the sequence of its characters.
AxesProp_labels(a, labels) ==
    LET b == [a EXCEPT !.labels = [i \in 1..3 |-> IF i <= Len(labels) THEN labels[i] ELSE @[i]]]
    IN IF Len(labels) < 3 THEN [actor |-> b, err |-> "IndexError", msg |-> ""]
       ELSE IF Len(labels) > 3
            THEN [actor |-> b, err |-> "ValueError",
                  msg |-> "Labels sequence must have exactly 3 items."]
       ELSE [actor |-> b, err |-> "", msg |-> ""]

check_auto_shaft_type(a, shaft_type_set, cylinder_params_set, line_params_set) ==
    IF shaft_type_set /\ a.shaft_type = "line" /\ cylinder_params_set THEN "ValueError"
    ELSE IF shaft_type_set /\ a.shaft_type = "cylinder" /\ line_params_set
         THEN "ValueError"
    ELSE IF cylinder_params_set /\ line_params_set THEN "ValueError"
    ELSE ""

\* the vtkAxesActor before __init__ assigns its properties
NewActor ==
    [shaft_type |-> "line", auto_shaft_type |-> FALSE, cylinder_radius |-> 5,
     line_width |-> 1, cylinder_resolution |-> 16,
     cone_radius |-> 40, cone_resolution |-> 16, labels |-> <<"X", "Y", "Z">>,
     auto_length |-> TRUE, shaft_length |-> <<0, 0, 0>>, tip_length |-> <<0, 0, 0>>,
     ambient |-> [key \in {"x", "y", "z"} \X {"shaft", "tip"} |-> 0]]

\* __init__: the properties are assigned with auto_shaft_type off, then the
\* flag is set and the combination of arguments is checked
AxesActor_init(theme, shaft_type, shaft_radius, shaft_width, shaft_resolution, auto_shaft_type) ==
    LET r1 == AxesActor_shaft_type(NewActor, shaft_type, theme)
        r2 == AxesActor_shaft_radius(r1.actor, set_default(shaft_radius, DefaultShaftRadius))
        r3 == AxesActor_shaft_width(r2.actor, set_default(shaft_width, DefaultShaftWidth))
        r4 == AxesActor_shaft_resolution(
                  r3.actor, set_default(shaft_resolution, DefaultShaftResolution))
        a5 == [r4.actor EXCEPT !.auto_shaft_type = auto_shaft_type]
        e == IF auto_shaft_type
             THEN check_auto_shaft_type(a5, shaft_type # None,
                                        shaft_radius # None \/ shaft_resolution # None,
                                        shaft_width # None)
             ELSE ""
    IN IF r1.err # "" THEN r1
       ELSE IF r2.err # "" THEN r2
       ELSE IF r3.err # "" THEN r3
       ELSE IF r4.err # "" THEN r4
       ELSE [actor |-> a5, err |-> e]

\* the values assigned: one below the range, the default, another one
ShaftTypeArgs == {None, Some("cylinder"), Some("line"), Some("cone")}
ShaftRadii == {-1, 1, 3}
ShaftWidths == {-1, 2, 5}
ShaftResolutions == {0, 16, 24}

InitActor ==
    /\ heap = NoObjs
    /\ raw = NoneItem
    /\ w = NoWrapper
    /\ made = 0
    /\ source = NoSource
    /\ ret = [Ret0 EXCEPT !.op = "AxesActor"]
    /\ \E theme \in ShaftTypes, shaft_type \in ShaftTypeArgs,
          shaft_radius \in {None, Some(3)}, shaft_width \in {None, Some(5)},
          shaft_resolution \in {None, Some(24)}, auto_shaft_type \in BOOLEAN :
           LET r == AxesActor_init(theme, shaft_type, shaft_radius, shaft_width,
                                   shaft_resolution, auto_shaft_type)
           IN r.err = "" /\ actor = r.actor

\* one assignment: ret.T keeps the shaft type the assignment found
Assigned(op, value, r) ==
    /\ actor' = r.actor
    /\ ret' = [Ret0 EXCEPT !.op = op, !.n = value, !.err = r.err, !.T = actor.shaft_type]
    /\ UNCHANGED <<wrapper, source>>

SetShaftType(shaft_type, theme) ==
    /\ actor' = AxesActor_shaft_type(actor, shaft_type, theme).actor
    /\ ret' = [Ret0 EXCEPT !.op = "shaft_type", !.T = actor.shaft_type,
                           !.err = AxesActor_shaft_type(actor, shaft_type, theme).err]
    /\ UNCHANGED <<wrapper, source>>

SetAutoShaftType(value) ==
    /\ actor' = AxesActor_auto_shaft_type(actor, value).actor
    /\ ret' = [Ret0 EXCEPT !.op = "auto_shaft_type", !.b = value, !.T = actor.shaft_type]
    /\ UNCHANGED <<wrapper, source>>

SetShaftRadius(radius) ==
    Assigned("shaft_radius", radius, AxesActor_shaft_radius(actor, radius))

SetShaftWidth(width) ==
    Assigned("shaft_width", width, AxesActor_shaft_width(actor, width))

SetShaftResolution(resolution) ==
    Assigned("shaft_resolution", resolution, AxesActor_shaft_resolution(actor, resolution))

SetTipResolution(resolution) ==
    Assigned("tip_resolution", resolution, AxesActor_tip_resolution(actor, resolution))

SetTipRadius(radius) ==
    Assigned("tip_radius", radius, AxesActor_tip_radius(actor, radius))

\* ret.elems keeps the labels given
SetLabels(labels) ==
    /\ actor' = AxesProp_labels(actor, labels).actor
    /\ ret' = [Ret0 EXCEPT !.op = "labels", !.elems = labels, !.T = actor.shaft_type,
                           !.err = AxesProp_labels(actor, labels).err,
                           !.msg = AxesProp_labels(actor, labels).msg]
    /\ UNCHANGED <<wrapper, source>>

\* the labels assigned: one item, three items, four items
LabelArgs == {<<"U">>, <<"U", "V", "W">>, <<"U", "V", "W", "T">>}

NextActor ==
    \/ \E resolution \in {0, 24} : SetTipResolution(resolution)
    \/ \E radius \in {-1, 60} : SetTipRadius(radius)
    \/ \E labels \in LabelArgs : SetLabels(labels)
    \/ \E shaft_type \in ShaftTypeArgs, theme \in ShaftTypes : SetShaftType(shaft_type, theme)
    \/ \E value \in BOOLEAN : SetAutoShaftType(value)
    \/ \E radius \in ShaftRadii : SetShaftRadius(radius)
    \/ \E width \in ShaftWidths : SetShaftWidth(width)
    \/ \E resolution \in ShaftResolutions : SetShaftResolution(resolution)

SpecActor == InitActor /\ [][NextActor]_vars

---------------------------------------------------------------------------
\* _AxesProp (pyvista.plotting.axes_actor): the normalized shaft and tip
\* lengths, one per axis, counted in units of 1e-9, and the six property
\* objects of the shafts and tips.  A length given as one number is <<x>>, a
\* length given as a sequence is the sequence.

\* 1.0 in units of 1e-9
Full == 1000000000

\* 1e-8, the place round(..., 8) rounds to, in units of 1e-9
Quantum == 10

Tenths(k) == k * (Full \div 10)

\* round(v, 8): the nearest multiple of 1e-8, a tie going to the even one
round8(v) ==
    LET lo == (v \div Quantum) * Quantum
        r == v - lo
    IN IF r * 2 < Quantum THEN lo
       ELSE IF r * 2 > Quantum THEN lo + Quantum
       ELSE IF (lo \div Quantum) % 2 = 0 THEN lo ELSE lo + Quantum

\* calc(x) of the two length setters
calc(x) == round8(Full - x)

\* a length setter that keeps the difference as it is
AxesProp_length_unrounded(a, field, length) ==
    LET other == IF field = "shaft_length" THEN "tip_length" ELSE "shaft_length"
        v == IF Len(length) = 1 THEN <<length[1], length[1], length[1]>> ELSE length
    IN IF Len(v) < 3 THEN [actor |-> a, err |-> "IndexError"]
       ELSE IF \E i \in 1..3 : check_range(v[i], 0) # "" \/ v[i] > Full THEN Rejected(a)
       ELSE Done([a EXCEPT ![field] = SubSeq(v, 1, 3),
                           ![other] = IF a.auto_length
                                      THEN [i \in 1..3 |-> Full - v[i]] ELSE @])

\* shaft_length = ... and tip_length = ...: a number is checked and repeated
\* on the three axes, the first three items are checked and stored, and with
\* auto_length the other length is computed from them
AxesProp_length(a, field, length) ==
    LET other == IF field = "shaft_length" THEN "tip_length" ELSE "shaft_length"
        v == IF Len(length) = 1 THEN <<length[1], length[1], length[1]>> ELSE length
    IN IF Len(v) < 3 THEN [actor |-> a, err |-> "IndexError"]
       ELSE IF \E i \in 1..3 : check_range(v[i], 0) # "" \/ v[i] > Full THEN Rejected(a)
       ELSE Done([a EXCEPT ![field] = SubSeq(v, 1, 3),
                           ![other] = IF a.auto_length
                                      THEN [i \in 1..3 |-> calc(v[i])] ELSE @])

\* _init_geometry_params: both lengths are assigned with auto_length off,
\* the combination of arguments is checked, and with auto_length the length
\* that was given is assigned again
AxesProp_init_geometry_params(a, shaft_length, tip_length) ==
    LET r1 == AxesProp_length([a EXCEPT !.auto_length = FALSE], "shaft_length",
                              IF shaft_length = None THEN <<Tenths(8)>> ELSE shaft_length)
        r2 == AxesProp_length(r1.actor, "tip_length",
                              IF tip_length = None THEN <<Tenths(2)>> ELSE tip_length)
        b == [r2.actor EXCEPT !.auto_length = a.auto_length]
        lengths_sum_to_one == \A i \in 1..3 : b.shaft_length[i] + b.tip_length[i] = Full
        r3 == IF ~a.auto_length THEN Done(b)
              ELSE IF shaft_length # None /\ tip_length # None /\ ~lengths_sum_to_one
                   THEN Rejected([b EXCEPT !.auto_length = FALSE])
              ELSE IF shaft_length # None /\ tip_length = None
                   THEN AxesProp_length(b, "shaft_length", shaft_length)
              ELSE IF tip_length # None /\ shaft_length = None
                   THEN AxesProp_length(b, "tip_length", tip_length)
              ELSE Done(b)
    IN IF r1.err # "" THEN r1 ELSE IF r2.err # "" THEN r2 ELSE r3

\* the lengths assigned: below the range, above it, off the 1e-8 grid, on
\* it, too few items, one per axis, more than three items
PropLengths ==
    {<<-1>>, <<Full + 1>>, <<1>>, <<Tenths(7)>>, <<Tenths(3), Tenths(5)>>,
     <<Tenths(3), 123456789, Full>>, <<0, Tenths(5), Tenths(2), Tenths(9)>>}

InitProp ==
    /\ heap = NoObjs
    /\ raw = NoneItem
    /\ w = NoWrapper
    /\ made = 0
    /\ source = NoSource
    /\ ret = [Ret0 EXCEPT !.op = "_AxesProp"]
    /\ \E auto_length \in BOOLEAN, shaft_length \in {None, <<Tenths(7)>>, <<Tenths(8)>>},
          tip_length \in {None, <<Tenths(2)>>, <<Tenths(5)>>} :
           LET r == AxesProp_init_geometry_params(
                        [NewActor EXCEPT !.auto_length = auto_length],
                        shaft_length, tip_length)
           IN r.err = "" /\ actor = r.actor

\* one assignment of a length: ret.elems keeps the length given
SetPropShaftLength(length) ==
    /\ actor' = AxesProp_length(actor, "shaft_length", length).actor
    /\ ret' = [Ret0 EXCEPT !.op = "prop_shaft_length", !.elems = length,
                 !.err = AxesProp_length(actor, "shaft_length", length).err]
    /\ UNCHANGED <<wrapper, source>>

SetPropTipLength(length) ==
    /\ actor' = AxesProp_length(actor, "tip_length", length).actor
    /\ ret' = [Ret0 EXCEPT !.op = "prop_tip_length", !.elems = length,
                 !.err = AxesProp_length(actor, "tip_length", length).err]
    /\ UNCHANGED <<wrapper, source>>

SetAutoLength(value) ==
    /\ actor' = [actor EXCEPT !.auto_length = value]
    /\ ret' = [Ret0 EXCEPT !.op = "auto_length", !.b = value]
    /\ UNCHANGED <<wrapper, source>>

NextProp ==
    \/ \E length \in PropLengths : SetPropShaftLength(length)
    \/ \E length \in PropLengths : SetPropTipLength(length)
    \/ \E value \in BOOLEAN : SetAutoLength(value)

SpecProp == InitProp /\ [][NextProp]_vars

---------------------------------------------------------------------------
\* _AxesProp.set_prop and get_prop: one property (ambient, in tenths) of the
\* six property objects, which are keyed <<axis, part>>.  An axis or part
\* argument is Name(s) or Num(n).

Name(s) == [t |-> "str", s |-> s, n |-> 0]
Num(n) == [t |-> "int", s |-> "", n |-> n]

\* the fields of AxesTuple, in order
AxesTuple ==
    << <<"x", "shaft">>, <<"y", "shaft">>, <<"z", "shaft">>,
       <<"x", "tip">>, <<"y", "tip">>, <<"z", "tip">> >>

\* enumerate(['x', 'y', 'z'])
AxisChars == <<"x", "y", "z">>

\* a filter that takes the part number for the axis number
filter_prop_objects_part_as_axis(axis, part) ==
    IF axis \notin {Num(0), Num(1), Num(2), Name("x"), Name("y"), Name("z"), Name("all")}
    THEN [keys |-> {}, err |-> "ValueError"]
    ELSE IF part \notin {Num(0), Num(1), Name("shaft"), Name("tip"), Name("all")}
    THEN [keys |-> {}, err |-> "ValueError"]
    ELSE [keys |-> {<<AxisChars[num + 1], p>> : num \in {n \in 0..2 :
                        axis \in {Num(n), Name(AxisChars[n + 1]), Name("all")}},
                      p \in {q \in {"shaft", "tip"} :
                        \/ q = "shaft" /\ part \in {Num(0), Name("shaft"), Name("all")}
                        \/ q = "tip" /\ part \in {Num(1), Name("tip"), Name("all")}
                        \/ part.t = "int" /\ axis.t = "int" /\ part.n = axis.n}},
          err |-> ""]

\* _filter_prop_objects: the keys of the property objects axis and part select
filter_prop_objects(axis, part) ==
    IF axis \notin {Num(0), Num(1), Num(2), Name("x"), Name("y"), Name("z"), Name("all")}
    THEN [keys |-> {}, err |-> "ValueError"]
    ELSE IF part \notin {Num(0), Num(1), Name("shaft"), Name("tip"), Name("all")}
    THEN [keys |-> {}, err |-> "ValueError"]
    ELSE [keys |-> {<<AxisChars[num + 1], p>> : num \in {n \in 0..2 :
                        axis \in {Num(n), Name(AxisChars[n + 1]), Name("all")}},
                      p \in {q \in {"shaft", "tip"} :
                        \/ q = "shaft" /\ part \in {Num(0), Name("shaft"), Name("all")}
                        \/ q = "tip" /\ part \in {Num(1), Name("tip"), Name("all")}}},
          err |-> ""]

\* set_prop('ambient', value, axis, part)
set_prop(a, value, axis, part) ==
    LET f == filter_prop_objects(axis, part)
    IN IF f.err # "" THEN Rejected(a)
       ELSE Done([a EXCEPT !.ambient = [key \in DOMAIN @ |->
                                           IF key \in f.keys THEN value ELSE @[key]]])

\* get_prop('ambient'): the AxesTuple of the six values
get_prop(a) == [i \in 1..6 |-> a.ambient[AxesTuple[i]]]

AxisArgs == {Num(0), Num(1), Num(2), Num(3), Name("x"), Name("y"), Name("z"), Name("all"), Name("a")}
PartArgs == {Num(0), Num(1), Num(2), Name("shaft"), Name("tip"), Name("all"), Name("cap")}

InitSetProp ==
    /\ heap = NoObjs
    /\ raw = NoneItem
    /\ w = NoWrapper
    /\ made = 0
    /\ source = NoSource
    /\ ret = [Ret0 EXCEPT !.op = "_AxesProp"]
    /\ actor = NewActor

\* a call of set_prop: ret.arg keeps the axis and the part, ret.n the value
SetProp(value, axis, part) ==
    /\ actor' = set_prop(actor, value, axis, part).actor
    /\ ret' = [Ret0 EXCEPT !.op = "set_prop", !.n = value, !.arg = <<axis, part>>,
                           !.err = set_prop(actor, value, axis, part).err]
    /\ UNCHANGED <<wrapper, source>>

GetProp ==
    /\ ret' = [Ret0 EXCEPT !.op = "get_prop", !.elems = get_prop(actor)]
    /\ UNCHANGED <<wrapper, axes>>

NextSetProp ==
    \/ \E value \in {0, 5}, axis \in AxisArgs, part \in PartArgs : SetProp(value, axis, part)
    \/ GetProp

SpecSetProp == InitSetProp /\ [][NextSetProp]_vars

---------------------------------------------------------------------------
\* AxesAssembly (pyvista.plotting.axes_assembly): position, orientation and
\* bounds.  `actor` holds the assembly.  A position is <<x, y, z>>; an
\* orientation is a number of quarter turns about the z axis, and a rotation
\* is the matrix of such a turn, named by the same number.

\* orientation=(0, 0, 0), the default of __init__
DefaultOrientation == 0

NoAssembly == [made |-> FALSE]

\* vtkPropAssembly.GetBounds(): (xmin, xmax, ymin, ymax, zmin, zmax) of axes
\* of length `scale` turned about the z axis and moved to the position
GetBounds(position, turns, scale) ==
    LET x == IF turns % 4 \in {1, 2} THEN -scale ELSE 0
        y == IF turns % 4 \in {2, 3} THEN -scale ELSE 0
    IN <<position[1] + x, position[1] + x + scale, position[2] + y,
         position[2] + y + scale, position[3], position[3] + scale>>

\* _set_prop3d_attr: the attribute is set on the assembly's actors, from
\* which the bounds come
set_prop3d_attr(a, name, value) ==
    LET b == [a EXCEPT ![name] = value]
    IN [b EXCEPT !.bounds = GetBounds(b.position, b.orientation, b.scale)]

\* __init__(position, orientation, rotation) with the parameters as Python
\* binds them: an orientation that is not given is DefaultOrientation
AxesAssembly_init(position, orientation, rotation) ==
    LET a1 == set_prop3d_attr([made |-> TRUE, position |-> <<0, 0, 0>>, orientation |-> 0,
                               scale |-> 1, bounds |-> <<0, 0, 0, 0, 0, 0>>],
                              "position", position)
        a2 == set_prop3d_attr(a1, "orientation", orientation[1])
        a3 == IF rotation # None THEN set_prop3d_attr(a2, "orientation", rotation[1]) ELSE a2
    IN IF orientation # None /\ rotation # None THEN Rejected(NoAssembly) ELSE Done(a3)

\* center, counted in halves
AxesAssembly_center(a) ==
    <<a.bounds[1] + a.bounds[2], a.bounds[2] + a.bounds[3], a.bounds[5] + a.bounds[6]>>

Positions == {<<0, 0, 0>>, <<2, 0, 0>>, <<0, 3, 1>>, <<-1, -1, 2>>}

InitAssembly ==
    /\ heap = NoObjs
    /\ raw = NoneItem
    /\ w = NoWrapper
    /\ made = 0
    /\ source = NoSource
    /\ ret = Ret0
    /\ actor = NoAssembly

\* AxesAssembly(...): ret.arg keeps the orientation and the rotation the
\* caller gave, None for one that was left out
NewAssembly(position, orientation, rotation) ==
    LET r == AxesAssembly_init(position,
                               IF orientation = None THEN Some(DefaultOrientation)
                               ELSE orientation, rotation)
    IN /\ actor' = r.actor
       /\ ret' = [Ret0 EXCEPT !.op = "AxesAssembly", !.arg = <<orientation, rotation>>,
                              !.err = r.err]
       /\ UNCHANGED <<wrapper, source>>

SetAssemblyAttr(name, value) ==
    /\ actor.made
    /\ actor' = set_prop3d_attr(actor, name, value)
    /\ ret' = [Ret0 EXCEPT !.op = name]
    /\ UNCHANGED <<wrapper, source>>

ReadCenter ==
    /\ actor.made
    /\ ret' = [Ret0 EXCEPT !.op = "center", !.elems = AxesAssembly_center(actor)]
    /\ UNCHANGED <<wrapper, axes>>

NextAssembly ==
    \/ \E position \in Positions, orientation \in {None, Some(0), Some(1)},
          rotation \in {None, Some(1), Some(3)} : NewAssembly(position, orientation, rotation)
    \/ \E position \in Positions : SetAssemblyAttr("position", position)
    \/ \E turns \in 0..3 : SetAssemblyAttr("orientation", turns)
    \/ \E scale \in 1..2 : SetAssemblyAttr("scale", scale)
    \/ ReadCenter

SpecAssembly == InitAssembly /\ [][NextAssembly]_vars

---------------------------------------------------------------------------
\* AxesGeometrySource (pyvista.core.utilities.geometric_sources): the shaft,
\* tip and total lengths, one per axis, counted in tenths.  A length given
\* as one number is <<x>>, a length given per axis is <<x, y, z>>.

\* 1.0, the upper limit of a normalized length
One == 10

\* the lengths __init__ takes for arguments that are None
DefaultShaftLength == 8
DefaultTipLength == 2
DefaultTotalLength == 10

Plus(u, v) == [i \in 1..3 |-> u[i] + v[i]]
Minus(u, v) == [i \in 1..3 |-> u[i] - v[i]]

\* _validation.validate_array3(length, broadcast=True, must_be_in_range=
\* [0.0, upper]): the length on the three axes; upper is 1.0 when `unit`
\* and inf otherwise
validate_array3(length, unit) ==
    LET v == IF Len(length) = 1 THEN <<length[1], length[1], length[1]>> ELSE length
    IN [out |-> v,
        err |-> IF \E i \in 1..3 : v[i] < 0 \/ (unit /\ v[i] > One)
                THEN "ValueError" ELSE ""]

\* the setters of _shaft_length, _tip_length and _total_length: the field is
\* bound to the validated length, or the validation raises
SetLength(s, field, length) ==
    LET v == validate_array3(length, field # "total_length" /\ s.normalized_mode)
    IN IF v.err # "" THEN [source |-> s, err |-> v.err]
       ELSE [source |-> [s EXCEPT ![field] = v.out], err |-> ""]

calc_one_minus(vector) == [i \in 1..3 |-> One - vector[i]]

\* shaft_length = ... and tip_length = ...: the length is set, then the other
\* length (normalized mode) or the total length is computed from it
AxesGeometrySource_length(s, field, length) ==
    LET other == IF field = "shaft_length" THEN "tip_length" ELSE "shaft_length"
        r == SetLength(s, field, length)
    IN IF r.err # "" THEN r
       ELSE IF s.normalized_mode
            THEN SetLength(r.source, other, calc_one_minus(r.source[field]))
       ELSE SetLength(r.source, "total_length",
                      Plus(r.source.shaft_length, r.source.tip_length))

\* total_length = ...: the total length is set, then compared with the tip
\* length, then the shaft length is computed from it
AxesGeometrySource_total_length(s, length) ==
    LET r == SetLength(s, "total_length", length)
        t == r.source
    IN IF r.err # "" \/ s.normalized_mode THEN r
       ELSE IF \E i \in 1..3 : t.total_length[i] < t.tip_length[i]
            THEN [source |-> t, err |-> "ValueError"]
       ELSE SetLength(t, "shaft_length", Minus(t.total_length, t.tip_length))

\* the first of the calls rs that raised, or the last call
RECURSIVE FirstError(_)
FirstError(rs) ==
    IF Len(rs) = 1 \/ Head(rs).err # "" THEN Head(rs) ELSE FirstError(Tail(rs))

\* __init__: the three lengths are set, the combination of arguments is
\* checked, and one of the public setters is called for the argument given
AxesGeometrySource_init(shaft_length, tip_length, total_length, normalized_mode) ==
    LET s0 == [normalized_mode |-> normalized_mode, shaft_length |-> <<0, 0, 0>>,
               tip_length |-> <<0, 0, 0>>, total_length |-> <<0, 0, 0>>]
        r1 == SetLength(s0, "shaft_length",
                        IF shaft_length = None THEN <<DefaultShaftLength>> ELSE shaft_length)
        r2 == SetLength(r1.source, "tip_length",
                        IF tip_length = None THEN <<DefaultTipLength>> ELSE tip_length)
        r3 == SetLength(r2.source, "total_length",
                        IF total_length = None THEN <<DefaultTotalLength>> ELSE total_length)
        s == r3.source
        sum == Plus(s.shaft_length, s.tip_length)
        r4 == IF normalized_mode
              THEN IF shaft_length # None /\ tip_length # None /\ sum # <<One, One, One>>
                   THEN [source |-> s, err |-> "ValueError"]
                   ELSE IF shaft_length # None /\ tip_length = None
                        THEN AxesGeometrySource_length(s, "shaft_length", shaft_length)
                   ELSE IF tip_length # None /\ shaft_length = None
                        THEN AxesGeometrySource_length(s, "tip_length", tip_length)
                   ELSE [source |-> s, err |-> ""]
              ELSE IF shaft_length # None /\ total_length # None /\ sum # s.total_length
                   THEN [source |-> s, err |-> "ValueError"]
                   ELSE IF shaft_length # None /\ total_length = None
                        THEN AxesGeometrySource_length(s, "shaft_length", shaft_length)
                   ELSE IF total_length # None /\ shaft_length = None
                        THEN AxesGeometrySource_total_length(s, total_length)
                   ELSE [source |-> s, err |-> ""]
    IN FirstError(<<r1, r2, r3, r4>>)

\* the lengths assigned: below the range, one number, one number per axis
Lengths == {<<-1>>, <<2>>, <<5>>, <<5, 2, 10>>}

InitSource ==
    /\ heap = NoObjs
    /\ raw = NoneItem
    /\ w = NoWrapper
    /\ made = 0
    /\ actor = NoActor
    /\ ret = [Ret0 EXCEPT !.op = "AxesGeometrySource"]
    /\ \E shaft_length \in {None, <<5>>, <<8>>}, tip_length \in {None, <<2>>, <<5>>},
          total_length \in {None, <<10>>, <<2>>}, normalized_mode \in BOOLEAN :
           LET r == AxesGeometrySource_init(shaft_length, tip_length, total_length,
                                            normalized_mode)
           IN r.err = "" /\ source = r.source

SetShaftLength(length) ==
    /\ source' = AxesGeometrySource_length(source, "shaft_length", length).source
    /\ ret' = [Ret0 EXCEPT !.op = "shaft_length", !.elems = length,
                 !.err = AxesGeometrySource_length(source, "shaft_length", length).err]
    /\ UNCHANGED <<wrapper, actor>>

SetTipLength(length) ==
    /\ source' = AxesGeometrySource_length(source, "tip_length", length).source
    /\ ret' = [Ret0 EXCEPT !.op = "tip_length", !.elems = length,
                 !.err = AxesGeometrySource_length(source, "tip_length", length).err]
    /\ UNCHANGED <<wrapper, actor>>

SetTotalLength(length) ==
    /\ source' = AxesGeometrySource_total_length(source, length).source
    /\ ret' = [Ret0 EXCEPT !.op = "total_length", !.elems = length,
                 !.err = AxesGeometrySource_total_length(source, length).err]
    /\ UNCHANGED <<wrapper, actor>>

NextSource ==
    \/ \E length \in Lengths : SetShaftLength(length)
    \/ \E length \in Lengths : SetTipLength(length)
    \/ \E length \in Lengths : SetTotalLength(length)

SpecSource == InitSource /\ [][NextSource]_vars

---------------------------------------------------------------------------
\* What the claims speak of

Variants == {"Number", "Sequence", "NestedSequence", "NumpyArray"}
Builtin == {"Number", "Sequence", "NestedSequence"}
Conversions == {"to_list", "to_tuple", "to_numpy"}

\* the heap as the caller sees it right after a call
Seen == heap @@ ret.objs

Perms(n) == {f \in [1..n -> 1..n] : \A i, j \in 1..n : f[i] = f[j] => i = j}

\* the numeric values of elements, as == compares them
Nums(it) == [k \in 1..Len(it) |-> Val2(it[k])]

\* every object of h is in h2 as it was
Kept(h, h2) == \A i \in DOMAIN h : i \in DOMAIN h2 /\ h2[i] = h[i]

\* C1: wrapping a wrapper returns that very wrapper: no wrapper is
\* constructed, and its storage and cached dtype are as they were.
C1_RewrapIsIdentity ==
    [][(ret'.op = "wrap" /\ ret'.arg.t = "wrapper")
          => /\ ret'.err = ""
             /\ ret'.out = WrapperItem(w.id)
             /\ w' = w
             /\ made' = made
             /\ heap' = heap]_vars

C1_Witness ==
    /\ ret.op = "wrap"
    /\ ret.arg.t = "wrapper"
    /\ ret.out = WrapperItem(w.id)
    /\ w.variant = "Sequence"
    /\ w.dtype = "int"

\* the variant the fixed order gives the caller's input
C2_Expected ==
    IF IsNumberSequence(heap, raw) THEN "Sequence"
    ELSE IF IsNestedNumberSequence(heap, raw) THEN "NestedSequence"
    ELSE IF IsNumber(raw) THEN "Number"
    ELSE "NumpyArray"

\* C2: the variant is chosen in one fixed order: flat number sequence (the
\* empty sequence too), then rectangular nested sequence, then number, then
\* the dense path; each input gives one variant or an error, and an input of
\* the first three kinds is never an error.
C2_PriorityOrder ==
    (ret.op = "wrap" /\ ret.arg = raw)
        => /\ (ret.err = "") # (w.id = 0)
           /\ ret.err = "" => w.variant = C2_Expected
           /\ ret.err # "" => C2_Expected = "NumpyArray"

C2_Witness ==
    /\ ret.op = "wrap"
    /\ ret.arg = raw
    /\ raw.t = "ref"
    /\ heap[raw.v].cls = "list"
    /\ Len(heap[raw.v].items) = 0
    /\ w.variant = "Sequence"

\* C3: a failed wrap raises the one invalid-array error with a truncated
\* preview of the input and leaves no wrapper; a wrap that returns has
\* returned a whole wrapper.
C3_UniformError ==
    ret.op = "wrap"
        => /\ ret.err \in {"", "ValueError"}
           /\ ret.err # ""
                => /\ Len(ret.msg) = 2
                   /\ ret.msg[1] = "The following array is not valid"
                   /\ raw.t = "ref"
                        => /\ ret.msg[2][1] = heap[raw.v].cls
                           /\ Len(ret.msg[2][2]) <= 6
                           /\ Len(ret.msg[2][2]) <= Len(heap[raw.v].items)
                           /\ ret.msg[2][3] = (Len(heap[raw.v].items) > 6)
                   /\ w = NoWrapper
                   /\ made = 0
                   /\ ret.out = NoneItem
           /\ ret.err = ""
                => /\ w.id = made
                   /\ w.variant \in Variants
                   /\ ret.out = WrapperItem(w.id)
                   /\ \/ w.variant = "Number" /\ IsNumber(w.array)
                      \/ w.variant # "Number" /\ w.array.t = "ref"
                                              /\ w.array.v \in DOMAIN heap

C3_Witness ==
    /\ ret.op = "wrap"
    /\ ret.err = "ValueError"
    /\ raw.t = "ref"
    /\ Len(heap[raw.v].items) > 6
    /\ ret.msg[2][3]

\* the promotion law, stated on the collection of elements
C4_Law(it) ==
    IF \E k \in 1..Len(it) : it[k].t = "float" THEN "float"
    ELSE IF \E k \in 1..Len(it) : it[k].t = "int" THEN "int"
    ELSE IF Len(it) > 0 THEN "bool"
    ELSE "float"

\* C4: the inferred dtype is float if any element is a float, else int if
\* any element is a non-boolean integer, else bool if there are elements,
\* and float for no elements; it is the same for every order of the elements.
C4_PromotionLaw ==
    ret.op = "infer"
        => /\ ret.dt = C4_Law(ret.elems)
           /\ \A f \in Perms(Len(ret.elems)) :
                  get_dtype_from_iterable([k \in 1..Len(ret.elems) |-> ret.elems[f[k]]])
                      = ret.dt

C4_Witness ==
    /\ ret.op = "infer"
    /\ Len(ret.elems) = 3
    /\ ret.elems[1].t = "bool"
    /\ ret.elems[2].t = "int"
    /\ ret.elems[3].t = "bool"
    /\ ret.dt = "int"

\* C5: for every wrapper in every reachable state, len(shape) = ndim and
\* size = product(shape), which is 1 for the empty shape of a Number wrapper.
C5_ShapeInvariant ==
    w.id # 0
        => /\ Len(shape(heap, w)) = ndim(heap, w)
           /\ size(heap, w) = Product(shape(heap, w))
           /\ w.variant = "Number" => size(heap, w) = 1
           /\ ret.op = "shape" => ret.shape = shape(heap, w)
           /\ ret.op = "ndim" => ret.n = Len(shape(heap, w))
           /\ ret.op = "size" => ret.n = Product(shape(heap, w))

C5_Witness ==
    /\ w.variant = "NestedSequence"
    /\ ret.op = "size"
    /\ ret.n = 4
    /\ w.array # raw

\* C6: with copy=True and the caller's input as input_array, to_list,
\* to_tuple and to_numpy return the wrapper's elements in an object that
\* shares no mutable object with the backing storage.
C6_CopyIsIndependent ==
    (ret.op \in Conversions /\ ret.copy /\ ret.arg = raw)
        => /\ Nums(Flat(Seen, ret.out)) = Nums(as_iterable(heap, w))
           /\ MutableReach(Seen, ret.out) \cap MutableReach(heap, w.array) = {}

C8_OnlyChangeDtypeMutates ==
    [][ret'.op # "change_dtype"
          => /\ raw' = raw
             /\ Kept(heap, heap')
             /\ w.id # 0 => w'.array = w.array
             /\ (w.id = 0 /\ w'.id # 0 /\ w'.variant \in Builtin) => w'.array = raw]_vars

C8_Witness ==
    /\ ret.op = "to_numpy"
    /\ w.variant = "NestedSequence"
    /\ w.array = raw
    /\ w.dtype = "float"

\* C9: after change_dtype(T) on a Number, Sequence or NestedSequence wrapper
\* every element of the storage has type T, dtype reports T, and shape, ndim
\* and size are what they were.
C9_ChangeDtypeCoerces ==
    [][(ret'.op = "change_dtype" /\ w.variant \in Builtin)
          => /\ \A k \in 1..Len(as_iterable(heap', w')) :
                    as_iterable(heap', w')[k].t = ret'.T
             /\ dtype(heap', w').dt = ret'.T
             /\ dtype(heap', w').err = ""
             /\ shape(heap', w') = shape(heap, w)
             /\ ndim(heap', w') = ndim(heap, w)
             /\ size(heap', w') = size(heap, w)]_vars

C9_Witness ==
    /\ ret.op = "change_dtype"
    /\ ret.T = "int"
    /\ w.variant = "NestedSequence"
    /\ size(heap, w) = 4
    /\ w.dtype = "int"

\* C10: change_dtype(T) on a wrapper whose dtype is T already leaves the
\* backing storage the same object with the same contents and the cached
\* dtype as it was.
C10_SameDtypeIsNoOp ==
    [][(ret'.op = "change_dtype" /\ dtype(heap, w).dt = ret'.T)
          => /\ w'.array = w.array
             /\ Kept(heap, heap')
             /\ w'.dtype = w.dtype]_vars

\* every object the caller's input is made of is in h2 as it was in h
InputKept(h, h2) == \A i \in Reach(h, raw) : i \in DOMAIN h2 /\ h2[i] = h[i]

SeqLike == {"Sequence", "NestedSequence"}

C12_DenseRebuilds ==
    [][(ret'.op = "change_dtype" /\ w.variant = "NumpyArray")
          => /\ InputKept(heap, heap')
             /\ heap[w.array.v].dtype # ret'.T
                  => /\ w'.array.v \notin DOMAIN heap
                     /\ heap'[w'.array.v].dtype = ret'.T
                     /\ heap'[w'.array.v].items
                            = CoerceAll(ret'.T, heap[w.array.v].items)
             /\ heap[w.array.v].dtype = ret'.T => w'.array = w.array]_vars

C12_Witness ==
    /\ ret.op = "change_dtype"
    /\ ret.T = "int"
    /\ w.variant = "NumpyArray"
    /\ heap[raw.v].cls = "ndarray"
    /\ heap[raw.v].dtype = "float"
    /\ heap[raw.v].items = <<F3, F3>>
    /\ w.array # raw
    /\ heap[w.array.v].items = <<Item("int", 1), Item("int", 1)>>

\* the wrapper is as construction from the caller's input leaves it
AsConstructed ==
    LET r == ArrayLikeWrapper(Restrict(heap, Reach(heap, raw)), raw, NoWrapper, 0)
    IN /\ r.err = ""
       /\ w.variant = r.w.variant
       /\ w.array = r.w.array
       /\ w.array.t = "ref" => heap[w.array.v] = r.heap[w.array.v]

\* the wrapper made from the list form agrees with the wrapper it came from
C13_Agree ==
    /\ ret.err = ""
    /\ ret.shape = shape(heap, w)
    /\ ret.dt = dtype(heap, w).dt
    /\ ret.n = size(heap, w)

\* C13, as stated: for every input x of each of the four kinds, the wrapper
\* of wrap(x).to_list(copy=False) has the shape, the dtype and the size of
\* wrap(x).
C13_Original ==
    (ret.op = "rewrap" /\ AsConstructed) => C13_Agree

\* C13, amended: for every input x of each of the four kinds but a dense
\* array with no elements, the wrapper of wrap(x).to_list(copy=False) has
\* the shape, the dtype and the size of wrap(x).
C13_RoundTrip ==
    (ret.op = "rewrap" /\ AsConstructed
        /\ ~(w.variant = "NumpyArray" /\ size(heap, w) = 0))
        => C13_Agree

C13_Witness ==
    /\ ret.op = "rewrap"
    /\ AsConstructed
    /\ w.variant = "NumpyArray"
    /\ shape(heap, w) = <<2>>
    /\ ret.T = "Sequence"
    /\ ret.shape = <<2>>
    /\ ret.dt = "int"

\* the promotion rank: float over int over bool
Rank(d) ==
    CASE d = "bool" -> 0
      [] d = "int" -> 1
      [] d = "float" -> 2
      [] OTHER -> -1

\* C14, as stated: for every collection, the empty one too, and every
\* element e, the dtype inferred with e added is not lower in rank than the
\* dtype inferred before.
C14_Original ==
    (ret.op = "infer" /\ ret.T # "") => Rank(ret.dt) >= Rank(ret.T)

\* C14, amended: for every collection that has an element and every element
\* e, the dtype inferred with e added is not lower in rank than the dtype
\* inferred before.
C14_MonotoneWhenNonEmpty ==
    (ret.op = "infer" /\ ret.T # "" /\ Len(ret.elems) > 1)
        => Rank(ret.dt) >= Rank(ret.T)

C14_Witness ==
    /\ ret.op = "infer"
    /\ ret.T = "bool"
    /\ ret.dt = "int"
    /\ Len(ret.elems) = 3
    /\ ret.elems[1].t = "int"

\* C15: a NestedSequence wrapper has shape (number of rows, length of every
\* row) and a size that is their product and the number of elements stored;
\* an input whose rows differ in length never gets the NestedSequence
\* variant.
C15_NestedIsRectangular ==
    /\ w.variant = "NestedSequence"
         => LET rows == heap[w.array.v].items
                s == shape(heap, w)
            IN /\ Len(s) = 2
               /\ s[1] = Len(rows)
               /\ \A k \in 1..Len(rows) : Len(heap[rows[k].v].items) = s[2]
               /\ size(heap, w) = s[1] * s[2]
               /\ size(heap, w) = Len(Flat(heap, w.array))
               /\ ret.op = "shape" => ret.shape = s
               /\ ret.op = "size" => ret.n = Len(Flat(heap, w.array))
    /\ (raw.t = "ref" /\ ShapeOf(heap, raw) = <<-1>>) => w.variant # "NestedSequence"

C15_Witness ==
    /\ w.variant = "NestedSequence"
    /\ ret.op = "shape"
    /\ ret.shape = <<1, 2>>
    /\ Len(Flat(heap, w.array)) = 2

\* the caller's input is a ragged nested sequence or has a leaf that is not
\* a number
Invalid(h, x) ==
    /\ IsSequence(h, x)
    /\ \/ ShapeOf(h, x) = <<-1>>
       \/ \E k \in 1..Len(Flat(h, x)) : Flat(h, x)[k].t = "str"

\* C16: wrapping a ragged nested sequence or a sequence with leaves that are
\* not numbers raises the one invalid-array error with the preview of the
\* input, and no wrapper is returned.
C16_InvalidIsRejected ==
    Invalid(heap, raw)
        => /\ w = NoWrapper
           /\ ret.op = "wrap"
                => /\ ret.err = "ValueError"
                   /\ ret.msg = <<"The following array is not valid",
                                  reprlib_repr(heap, raw)>>
                   /\ ret.out = NoneItem

C16_Witness ==
    /\ ret.op = "wrap"
    /\ ret.err = "ValueError"
    /\ raw.t = "ref"
    /\ Len(heap[raw.v].items) = 2
    /\ heap[raw.v].items[1].t = "ref"
    /\ heap[heap[raw.v].items[1].v].items = <<I2, I2>>
    /\ heap[heap[raw.v].items[2].v].items = <<I2>>

\* the scalar elements of the storage in row-major order
RowMajor(h, wr) == IF wr.variant = "Number" THEN <<wr.array>> ELSE Flat(h, wr.array)

\* C17: all_func returns true exactly when the predicate, called with the
\* extra arguments, holds for every scalar element of the wrapper, whatever
\* the variant; it returns true when there are no elements, and it leaves the
\* wrapper and its storage as they were.
C17_AllFuncIsForAll ==
    [][ret'.op = "all_func"
          => /\ ret'.b = (\A k \in 1..Len(RowMajor(heap, w)) :
                             Func(ret'.T, RowMajor(heap, w)[k], ret'.n))
             /\ Len(RowMajor(heap, w)) = 0 => ret'.b
             /\ w' = w
             /\ heap' = heap
             /\ raw' = raw]_vars

C17_Witness ==
    /\ ret.op = "all_func"
    /\ ret.T = "gt"
    /\ ret.n = 2
    /\ ~ret.b
    /\ w.variant = "NestedSequence"
    /\ RowMajor(heap, w) = <<F3, F3, B1, B1>>

\* C18: every call of as_iterable yields the size elements of the storage
\* in row-major order from the first one on (the one number of a Number
\* wrapper), however many elements were taken from an earlier result.
C18_IterableIsRestartable ==
    [][(ret'.op = "as_iterable" /\ ret'.n = 0)
          => /\ ret'.elems = RowMajor(heap, w)
             /\ Len(ret'.elems) = size(heap, w)
             /\ w.variant = "Number" => ret'.elems = <<w.array>>
             /\ w' = w
             /\ heap' = heap]_vars

C18_Witness ==
    /\ ret.op = "as_iterable"
    /\ w.variant = "NestedSequence"
    /\ ret.elems = <<B1, F3, B1, B1>>
    /\ ret.n = 4

ShaftAssignments == {"shaft_width", "shaft_radius", "shaft_resolution"}

\* C19: with auto_shaft_type True an assignment of shaft_width makes the
\* shaft type 'line' and an assignment of shaft_radius or shaft_resolution
\* makes it 'cylinder', whatever it was; with auto_shaft_type False these
\* assignments leave the shaft type as it was.
C19_AutoShaftType ==
    [][ret'.op \in ShaftAssignments
          => /\ (actor.auto_shaft_type /\ ret'.err = "")
                  => actor'.shaft_type =
                         (IF ret'.op = "shaft_width" THEN "line" ELSE "cylinder")
             /\ ~actor.auto_shaft_type => actor'.shaft_type = actor.shaft_type
             /\ actor'.auto_shaft_type = actor.auto_shaft_type]_vars

C19_Witness ==
    /\ ret.op = "shaft_radius"
    /\ ret.err = ""
    /\ ret.n = 3
    /\ ret.T = "line"
    /\ actor.auto_shaft_type
    /\ actor.shaft_type = "cylinder"
    /\ actor.cylinder_radius = 3

\* C20: on an AxesGeometrySource with normalized_mode False, the shaft
\* length and the tip length add up to the total length on every axis, after
\* construction and after every assignment to one of the three lengths,
\* rejected assignments too.
C20_LengthsAddUp ==
    ~source.normalized_mode
        => \A i \in 1..3 :
               source.shaft_length[i] + source.tip_length[i] = source.total_length[i]

\* the length an assignment of `field` leaves on the other property
OtherLength(a, op) == IF op = "prop_shaft_length" THEN a.tip_length ELSE a.shaft_length
ThisLength(a, op) == IF op = "prop_shaft_length" THEN a.shaft_length ELSE a.tip_length
LengthAssignments == {"prop_shaft_length", "prop_tip_length"}

AxesNamed(axis) ==
    IF axis \in {Name("x"), Num(0)} THEN {"x"}
    ELSE IF axis \in {Name("y"), Num(1)} THEN {"y"}
    ELSE IF axis \in {Name("z"), Num(2)} THEN {"z"}
    ELSE IF axis = Name("all") THEN {"x", "y", "z"} ELSE {}
PartsNamed(part) ==
    IF part \in {Name("shaft"), Num(0)} THEN {"shaft"}
    ELSE IF part \in {Name("tip"), Num(1)} THEN {"tip"}
    ELSE IF part = Name("all") THEN {"shaft", "tip"} ELSE {}

C23_LabelsExactlyThree ==
    [][ret'.op = "labels"
          => IF Len(ret'.elems) = 3
             THEN ret'.err = "" /\ actor'.labels = ret'.elems
             ELSE /\ ret'.err = "ValueError"
                  /\ ret'.msg = "Labels sequence must have exactly 3 items."]_vars

\* C30: an assignment to tip_resolution, shaft_resolution, tip_radius,
\* shaft_width or labels that raises leaves every property, the assigned one
\* and shaft_type included, as it was before the assignment.
C30_RejectedIsAtomic ==
    [][(ret'.op \in {"tip_resolution", "shaft_resolution", "tip_radius", "shaft_width",
                     "labels"} /\ ret'.err # "")
          => actor' = actor]_vars

\* C24: constructing an AxesAssembly raises 'Cannot set both orientation and
\* rotation' only when the caller gives both; a rotation given alone, with
\* the orientation left at its default, constructs the assembly with that
\* rotation applied.
C24_RotationAlone ==
    ret.op = "AxesAssembly"
        => LET orientation == ret.arg[1]
               rotation == ret.arg[2]
           IN /\ ret.err # "" <=> (orientation # None /\ rotation # None)
              /\ (orientation = None /\ rotation # None)
                    => actor.made /\ actor.orientation = rotation[1]

\* C25: center is the midpoint of the bounds on each axis (both sides
\* doubled).
C25_CenterIsMidpoint ==
    ret.op = "center"
        => /\ ret.elems[1] = actor.bounds[1] + actor.bounds[2]
           /\ ret.elems[2] = actor.bounds[3] + actor.bounds[4]
           /\ ret.elems[3] = actor.bounds[5] + actor.bounds[6]

\* C26: a Sequence or NestedSequence wrapper is constructed with no dtype
\* stored; a read of dtype that finds none stored goes over the elements
\* and stores what inference returns; a read that finds one stored returns
\* it without going over the elements and changes nothing; change_dtype(T)
\* replaces the stored dtype by T.
C26_DtypeIsCached ==
    [][/\ (ret'.op = "wrap" /\ w'.id # w.id /\ w'.variant \in SeqLike)
            => w'.dtype = "None"
       /\ (ret'.op = "dtype" /\ w.variant \in SeqLike)
            => IF w.dtype = "None"
               THEN /\ ret'.b
                    /\ ret'.err = ""
                    /\ ret'.dt = get_dtype_from_iterable(as_iterable(heap, w))
                    /\ w' = [w EXCEPT !.dtype = ret'.dt]
               ELSE /\ ~ret'.b
                    /\ ret'.dt = w.dtype
                    /\ w' = w
       /\ (ret'.op = "change_dtype" /\ w.variant \in SeqLike)
            => w'.dtype = ret'.T]_vars

\* a later read of dtype has returned the stored dtype of a nested sequence
C26_Witness ==
    /\ ret.op = "dtype"
    /\ ~ret.b
    /\ w.variant = "NestedSequence"
    /\ ret.dt = w.dtype
    /\ size(heap, w) > 0

\* the sequence at x and, when it is nested, each of its rows have the class
\* of the caller's input and of its rows
ClassesOfInput(h, x, nested) ==
    /\ h[x.v].cls = h[raw.v].cls
    /\ nested => /\ Len(h[x.v].items) = Len(h[raw.v].items)
                 /\ \A k \in 1..Len(h[x.v].items) :
                       h[h[x.v].items[k].v].cls = h[h[raw.v].items[k].v].cls

\* C27: a Sequence or NestedSequence wrapper is constructed over the
\* caller's list or tuple itself; after any calls, change_dtype included,
\* the storage and each row of nested storage have the class the input and
\* its rows have; to_list on list storage and to_tuple on tuple storage
\* with copy=False return the storage itself.
C27_ContainerTypeKept ==
    [][/\ (w.id = 0 /\ w'.id # 0 /\ w'.variant \in SeqLike) => w'.array = raw
       /\ (w'.id # 0 /\ w'.variant \in SeqLike)
            => ClassesOfInput(heap', w'.array, w'.variant = "NestedSequence")
       /\ (w.variant \in SeqLike /\ ~ret'.copy
             /\ \/ ret'.op = "to_list" /\ heap[w.array.v].cls = "list"
                \/ ret'.op = "to_tuple" /\ heap[w.array.v].cls = "tuple")
            => ret'.out = w.array /\ ret'.objs = NoObjs]_vars

\* to_tuple(copy=False) has returned the storage that change_dtype built
\* for a tuple of lists
C27_Witness ==
    /\ ret.op = "to_tuple"
    /\ ~ret.copy
    /\ w.variant = "NestedSequence"
    /\ w.array # raw
    /\ ret.out = w.array
    /\ heap[w.array.v].cls = "tuple"
    /\ Len(heap[w.array.v].items) > 0
    /\ heap[heap[w.array.v].items[1].v].cls = "list"

\* C28: on a Sequence or NestedSequence wrapper, one with no elements
\* included, after any dtype reads and change_dtype calls, dtype returns
\* what inference returns for the elements the storage holds now.
C28_CacheConsistent ==
    (w.id # 0 /\ w.variant \in SeqLike)
        => dtype(heap, w).dt = get_dtype_from_iterable(as_iterable(heap, w))

\* C29: reading dtype of a wrapper that was constructed as Sequence or
\* NestedSequence never raises.
C29_DtypeNeverRaises ==
    (ret.op = "dtype" /\ w.variant \in SeqLike) => ret.err = ""

====
